---------------------------- MODULE Spec2Model ----------------------------
(***************************************************************************)
(* A model of ru_address: the storage backends (storage.py) and the        *)
(* parallel import pipeline (pipeline.py).                                 *)
(*                                                                         *)
(* Strings that the code takes apart (archive entry names, file names,     *)
(* region ids, table names, extensions) are sequences of one-character     *)
(* strings, so that lower(), replace(), split(), glob matching and the     *)
(* regular expression of ZipStorage._matches are computed, not assumed.    *)
(* The character "half" stands for U+00BD, which str.isnumeric() accepts   *)
(* and str.isdigit() rejects.                                              *)
(***************************************************************************)
EXTENDS Integers, Sequences, FiniteSets, TLC

VARIABLES
    \* ---- storage: the container and the last storage call
    dataset,      \* the logical files of the container: a set of paths (sequences of segments)
    sep,          \* the separator the archive writer used in entry names: "/" or "\\"
    call,         \* the last storage operation applied and its outcome
    \* ---- pipeline: execute_pipeline and its workers
    options,      \* PipelineOptions
    pc,           \* where the orchestrator is
    error,        \* the exception execute_pipeline ended with ("none" while there is none)
    downloaded,   \* download_archive's second result
    workdir,      \* the TemporaryDirectory of execute_pipeline exists
    collected,    \* _collect_regions has listed the archive's regions
    regions,      \* the result of _collect_regions
    pool,         \* the ProcessPoolExecutor: "none", "open", "closed"
    workers,      \* its max_workers
    submitted,    \* how many of regions have been submitted
    task,         \* each region task's state
    invoked,      \* per artifact: loader invocations started
    completed,    \* per artifact: loader invocations that have returned
    failedLoad,   \* the artifacts whose loader exited non-zero
    produced,     \* history: the artifacts for which the converter wrote a file
    invokedWith,  \* history: per artifact, what its loader was invoked with
    artifact,     \* the artifacts that exist on disk in a temporary directory
    tmpdirs,      \* the artifacts whose TemporaryDirectory exists
    handles,      \* the owners of storage handles that are open
    finishOrder,  \* the regions in the order their futures resolved
    snapshot,     \* the futures already resolved when as_completed started
    waiting,      \* as_completed has started
    reported,     \* the regions the orchestrator has reported, in order
    observedFailure, \* the orchestrator has seen a failed future
    atFailure,    \* history: every task's state when the first failure was seen
    cwd,          \* the invoking working directory: file name -> content ("absent" if none)
    cwd0,         \* history: the invoking working directory when execute_pipeline was called
    db_config,    \* DatabaseConfig
    detail,       \* what the exception execute_pipeline ended with carries
    \* ---- the loader: _build_psql_command and _import_dump
    load          \* the last loader operation applied and its outcome

svars == <<dataset, sep, call>>
given == <<options, db_config, cwd0>>
pvars == <<given, pc, error, detail, downloaded, workdir, collected, regions, pool,
           workers, submitted, task, invoked, completed, failedLoad, produced,
           invokedWith, artifact, tmpdirs, handles, finishOrder, snapshot, waiting, reported, observedFailure,
           atFailure, cwd>>
lvars == <<load>>
vars == <<svars, lvars, pvars>>

-----------------------------------------------------------------------------
(* Bounds *)

\* the most files a container holds when the storage operations are explored
MaxEntries == 2
\* the longest list of requested regions
MaxRequested == 2

-----------------------------------------------------------------------------
(* Python's str operations, on sequences of characters *)

None == <<>>
Some(x) == <<x>>

Range(s) == {s[i] : i \in 1..Len(s)}

Lower(c) ==
    CASE c = "A" -> "a" [] c = "S" -> "s" [] c = "T" -> "t" [] c = "U" -> "u"
      [] c = "X" -> "x" [] c = "M" -> "m" [] c = "L" -> "l" [] c = "D" -> "d"
      [] OTHER -> c

Upper(c) ==
    CASE c = "a" -> "A" [] c = "s" -> "S" [] c = "t" -> "T" [] c = "u" -> "U"
      [] c = "x" -> "X" [] c = "m" -> "M" [] c = "l" -> "L" [] c = "d" -> "D"
      [] OTHER -> c

LowerStr(s) == [i \in 1..Len(s) |-> Lower(s[i])]
UpperStr(s) == [i \in 1..Len(s) |-> Upper(s[i])]

\* the code point of a character, for sorted()
Ord(c) ==
    CASE c = "." -> 46 [] c = "/" -> 47
      [] c = "1" -> 49 [] c = "7" -> 55 [] c = "8" -> 56 [] c = "9" -> 57
      [] c = "A" -> 65 [] c = "D" -> 68 [] c = "L" -> 76 [] c = "M" -> 77
      [] c = "S" -> 83 [] c = "T" -> 84 [] c = "U" -> 85 [] c = "X" -> 88
      [] c = "\\" -> 92 [] c = "_" -> 95
      [] c = "a" -> 97 [] c = "c" -> 99 [] c = "d" -> 100 [] c = "h" -> 104
      [] c = "l" -> 108 [] c = "m" -> 109 [] c = "s" -> 115 [] c = "t" -> 116
      [] c = "x" -> 120 [] c = "half" -> 189
      [] OTHER -> 0

IsDecimalChar(c) == c \in {"0", "1", "2", "3", "4", "5", "6", "7", "8", "9"}
\* str.isdigit(): of the characters used here, the decimal digits
IsDigitChar(c) == IsDecimalChar(c)
\* str.isnumeric(): the digits and every character with a numeric value
IsNumericChar(c) == IsDigitChar(c) \/ c = "half"

IsDigit(s) == Len(s) > 0 /\ \A i \in 1..Len(s) : IsDigitChar(s[i])
IsNumeric(s) == Len(s) > 0 /\ \A i \in 1..Len(s) : IsNumericChar(s[i])

Replace(s, a, b) == [i \in 1..Len(s) |-> IF s[i] = a THEN b ELSE s[i]]

RECURSIVE Split(_, _)
Split(s, c) ==
    IF c \notin Range(s) THEN <<s>>
    ELSE LET i == CHOOSE k \in 1..Len(s) : s[k] = c /\ \A j \in 1..(k - 1) : s[j] # c
         IN  <<SubSeq(s, 1, i - 1)>> \o Split(SubSeq(s, i + 1, Len(s)), c)

RECURSIVE Join(_, _)
Join(parts, c) ==
    IF Len(parts) = 0 THEN <<>>
    ELSE IF Len(parts) = 1 THEN parts[1]
    ELSE parts[1] \o <<c>> \o Join(Tail(parts), c)

\* s[:-1]
ButLast(s) == SubSeq(s, 1, Len(s) - 1)
Last(s) == s[Len(s)]

\* os.path.basename of a "/"-separated name
Basename(name) == Last(Split(name, "/"))

StartsWithAt(s, p, i) ==
    /\ i + Len(p) - 1 <= Len(s)
    /\ SubSeq(s, i, i + Len(p) - 1) = p

RECURSIVE StrLess(_, _)
StrLess(a, b) ==
    IF Len(a) = 0 THEN Len(b) > 0
    ELSE IF Len(b) = 0 THEN FALSE
    ELSE IF a[1] # b[1] THEN Ord(a[1]) < Ord(b[1])
    ELSE StrLess(Tail(a), Tail(b))

\* sorted(S) for a collection without repetitions
RECURSIVE Sorted(_)
Sorted(S) ==
    IF S = {} THEN <<>>
    ELSE LET m == CHOOSE x \in S : \A y \in S \ {x} : StrLess(x, y)
         IN  <<m>> \o Sorted(S \ {m})

\* fnmatch.fnmatchcase for a pattern with at most one "*"
Fnmatch(name, pattern) ==
    IF "*" \notin Range(pattern) THEN name = pattern
    ELSE LET k == CHOOSE i \in 1..Len(pattern) : pattern[i] = "*"
             pre == SubSeq(pattern, 1, k - 1)
             post == SubSeq(pattern, k + 1, Len(pattern))
         IN  /\ Len(name) >= Len(pre) + Len(post)
             /\ SubSeq(name, 1, Len(pre)) = pre
             /\ SubSeq(name, Len(name) - Len(post) + 1, Len(name)) = post

\* list(dict.fromkeys(s)): the first occurrence of each element, in order
RECURSIVE Dedupe(_)
Dedupe(s) ==
    IF Len(s) = 0 THEN <<>>
    ELSE LET rest == Dedupe(ButLast(s))
         IN  IF Last(s) \in Range(rest) THEN rest ELSE Append(rest, Last(s))

-----------------------------------------------------------------------------
(* The names the storage model is explored with *)

sAS == <<"A", "S", "_">>
tT == <<"T">>
tTU == <<"T", "_", "U">>
eXml == <<"x", "m", "l">>
eXsd == <<"x", "s", "d">>

r77 == <<"7", "7">>
r78 == <<"7", "8">>
r99 == <<"9", "9">>
dSchema == <<"s", "c", "h">>
dHalf == <<"half">>

fT_XSD == <<"A", "S", "_", "T", ".", "X", "S", "D">>
fT_XML == <<"A", "S", "_", "T", ".", "X", "M", "L">>
fT_1_XML == <<"A", "S", "_", "T", "_", "1", ".", "X", "M", "L">>
fT_1_XSD == <<"A", "S", "_", "T", "_", "1", ".", "X", "S", "D">>
fT_1_xml == <<"a", "s", "_", "t", "_", "1", ".", "x", "m", "l">>
fT_Xml == <<"A", "S", "_", "T", ".", "X", "m", "l">>
fTU_1_XML == <<"A", "S", "_", "T", "_", "U", "_", "1", ".", "X", "M", "L">>
fXT_XML == <<"X", "A", "S", "_", "T", ".", "X", "M", "L">>

Tables == {tT, tTU}
RegionIds == {r77, r78}

\* the files a container may hold: root files, region files, a nested file
Paths ==
    { <<fT_XSD>>, <<fT_1_XML>>, <<dSchema, fT_XSD>>,
      <<r77, fT_1_XML>>, <<r78, fT_1_XML>>, <<r77, fT_XML>>,
      <<r77, fTU_1_XML>>, <<r77, fT_1_xml>>, <<r78, fT_Xml>>,
      <<r77, fT_1_XSD>>, <<r78, fXT_XML>>,
      <<r77, r78, fT_1_XML>>, <<dHalf, fT_1_XML>> }

Datasets == {d \in SUBSET Paths : Cardinality(d) <= MaxEntries}

-----------------------------------------------------------------------------
(* storage.py: outcomes *)

Stream(entry) == [kind |-> "stream", entry |-> entry, err |-> "none"]
Failure(err) == [kind |-> "error", entry |-> <<>>, err |-> err]
Found(entry) == [kind |-> "found", entry |-> entry, err |-> "none"]
Listing(ids) == [kind |-> "regions", entry |-> ids, err |-> "none"]

-----------------------------------------------------------------------------
(* storage.py: ZipStorage *)

\* ZipFile.namelist(): one name per file, segments joined by the writer's separator
Namelist(files, s) == Sorted({Join(p, s) : p \in files})

\* ZipStorage.list_regions
ZipListRegions(namelist) ==
    LET parts(name) == Split(Replace(name, "\\", "/"), "/")
        found == UNION { {part \in Range(ButLast(parts(name))) : IsDigit(part)}
                         : name \in Range(namelist) }
    IN  Sorted(found)

\* the pattern of ZipStorage._matches, searched anywhere in base_lower:
\*   as_<table>(_\d|\.<extension>$)
ReSearch(base_lower, table_lower, extension_lower) ==
    LET head == LowerStr(sAS) \o table_lower
    IN  \E i \in 1..Len(base_lower) :
            /\ StartsWithAt(base_lower, head, i)
            /\ LET j == i + Len(head)
               IN  \/ /\ j + 1 <= Len(base_lower)
                      /\ base_lower[j] = "_"
                      /\ IsDecimalChar(base_lower[j + 1])
                   \/ SubSeq(base_lower, j, Len(base_lower)) = <<".">> \o extension_lower

ZipMatches_NoScope(name, directory, table, extension) ==
    LET normalized == Replace(name, "\\", "/")
        path_parts == ButLast(Split(normalized, "/"))
    IN  IF ~ReSearch(LowerStr(Basename(normalized)), LowerStr(table), LowerStr(extension))
        THEN FALSE
        ELSE IF directory = None
             THEN ~(\E i \in 1..Len(path_parts) : IsDigit(path_parts[i]))
             ELSE TRUE

\* ZipStorage._matches; directory is None or Some(region)
ZipMatches(name, directory, table, extension) ==
    LET normalized == Replace(name, "\\", "/")
        basename == Basename(normalized)
        base_lower == LowerStr(basename)
        extension_lower == LowerStr(extension)
        table_lower == LowerStr(table)
        path_parts == ButLast(Split(normalized, "/"))
    IN  IF ~ReSearch(base_lower, table_lower, extension_lower) THEN FALSE
        ELSE IF directory = None
             THEN ~(\E i \in 1..Len(path_parts) : IsDigit(path_parts[i]))
             ELSE directory[1] \in Range(path_parts)

ZipFindMember_PickFirst(namelist, directory, table, extension) ==
    LET candidates == SelectSeq(namelist,
                          LAMBDA name : ZipMatches(name, directory, table, extension))
    IN  IF Len(candidates) >= 1 THEN Found(candidates[1])
        ELSE Failure("NotFound")

\* ZipStorage._find_member
ZipFindMember(namelist, directory, table, extension) ==
    LET candidates == SelectSeq(namelist,
                          LAMBDA name : ZipMatches(name, directory, table, extension))
    IN  IF Len(candidates) = 1 THEN Found(candidates[1])
        ELSE IF Len(candidates) > 1 THEN Failure("Ambiguous")
        ELSE Failure("NotFound")

\* ZipStorage.open_schema
ZipOpenSchema(namelist, entity) ==
    LET member == ZipFindMember(namelist, None, entity, eXsd)
    IN  IF member.kind = "found" THEN Stream(member.entry) ELSE member

\* ZipStorage.open_table
ZipOpenTable(namelist, table, region) ==
    LET member == ZipFindMember(namelist, region, table, eXml)
    IN  IF member.kind = "found" THEN Stream(member.entry) ELSE member

-----------------------------------------------------------------------------
(* storage.py: DirectoryStorage, over the files extracted below base_path *)

IsPrefix(p, q) == Len(p) <= Len(q) /\ SubSeq(q, 1, Len(p)) = p

\* os.listdir(directory): the names directly inside it
Listdir(files, directory) ==
    {p[Len(directory) + 1] : p \in {q \in files : IsPrefix(directory, q) /\ Len(q) > Len(directory)}}

\* os.path.isdir
IsDir(files, path) == \E q \in files : IsPrefix(path, q) /\ Len(q) > Len(path)

\* glob.glob(os.path.join(directory, pattern)), sorted
Glob(files, directory, pattern) ==
    LET hits == {directory \o <<e>> : e \in {x \in Listdir(files, directory) : Fnmatch(x, pattern)}}
        byName == {Join(p, "/") : p \in hits}
    IN  [i \in 1..Cardinality(hits) |->
            CHOOSE p \in hits : Join(p, "/") = Sorted(byName)[i]]

RECURSIVE Concat(_)
Concat(ss) == IF Len(ss) = 0 THEN <<>> ELSE ss[1] \o Concat(Tail(ss))

\* DirectoryStorage._search
DirSearch(files, directory, table, extension) ==
    LET variants == IF LowerStr(extension) = UpperStr(extension)
                    THEN <<LowerStr(extension)>>
                    ELSE <<LowerStr(extension), UpperStr(extension)>>
        patternsOf(v) == << sAS \o table \o <<"_", "*", ".">> \o v,
                            sAS \o table \o <<".">> \o v >>
        patterns == Concat([i \in 1..Len(variants) |-> patternsOf(variants[i])])
        matches == Concat([i \in 1..Len(patterns) |-> Glob(files, directory, patterns[i])])
        unique_matches == Dedupe(matches)
    IN  IF Len(unique_matches) = 1 THEN Found(unique_matches[1])
        ELSE IF Len(unique_matches) > 1 THEN Failure("Ambiguous")
        ELSE Failure("NotFound")

\* open(filepath, 'rb')
OpenFile(files, found) ==
    IF found.kind # "found" THEN found
    ELSE IF found.entry \in files THEN Stream(found.entry)
    ELSE Failure("IsADirectory")

\* DirectoryStorage.list_regions
DirListRegions(files) ==
    Sorted({entry \in Listdir(files, <<>>) : IsNumeric(entry) /\ IsDir(files, <<entry>>)})

\* DirectoryStorage.open_schema
DirOpenSchema(files, entity) == OpenFile(files, DirSearch(files, <<>>, entity, eXsd))

\* DirectoryStorage.open_table
DirOpenTable(files, table, region) ==
    LET base == IF region # None THEN <<region[1]>> ELSE <<>>
    IN  OpenFile(files, DirSearch(files, base, table, eXml))

-----------------------------------------------------------------------------
(* The storage operations as steps: each applies one operation of one      *)
(* backend to the container and records the outcome.                       *)

NoCall == [op |-> "none", backend |-> "none", table |-> <<>>, region |-> None,
           outcome |-> Failure("none")]

Scopes == {None} \cup {Some(r) : r \in RegionIds}

ZipOpenTableCall ==
    /\ \E table \in Tables, region \in Scopes :
           call' = [op |-> "open_table", backend |-> "zip", table |-> table, region |-> region,
                    outcome |-> ZipOpenTable(Namelist(dataset, sep), table, region)]
    /\ UNCHANGED <<dataset, sep, lvars, pvars>>

ZipOpenSchemaCall ==
    /\ \E entity \in Tables :
           call' = [op |-> "open_schema", backend |-> "zip", table |-> entity, region |-> None,
                    outcome |-> ZipOpenSchema(Namelist(dataset, sep), entity)]
    /\ UNCHANGED <<dataset, sep, lvars, pvars>>

ZipListRegionsCall ==
    /\ call' = [op |-> "list_regions", backend |-> "zip", table |-> <<>>, region |-> None,
                outcome |-> Listing(ZipListRegions(Namelist(dataset, sep)))]
    /\ UNCHANGED <<dataset, sep, lvars, pvars>>

DirOpenTableCall ==
    /\ \E table \in Tables, region \in Scopes :
           call' = [op |-> "open_table", backend |-> "dir", table |-> table, region |-> region,
                    outcome |-> DirOpenTable(dataset, table, region)]
    /\ UNCHANGED <<dataset, sep, lvars, pvars>>

DirOpenSchemaCall ==
    /\ \E entity \in Tables :
           call' = [op |-> "open_schema", backend |-> "dir", table |-> entity, region |-> None,
                    outcome |-> DirOpenSchema(dataset, entity)]
    /\ UNCHANGED <<dataset, sep, lvars, pvars>>

DirListRegionsCall ==
    /\ call' = [op |-> "list_regions", backend |-> "dir", table |-> <<>>, region |-> None,
                outcome |-> Listing(DirListRegions(dataset))]
    /\ UNCHANGED <<dataset, sep, lvars, pvars>>

-----------------------------------------------------------------------------
(* pipeline.py: the inputs of execute_pipeline *)

\* Core.COMMON_TABLE_LIST and Core.REGION_TABLE_LIST, one table of each
CommonTableList == {"OBJECT_LEVELS"}
RegionTableList == {"ADDR_OBJ"}
TableLists == {<<>>, <<"OBJECT_LEVELS">>, <<"ADDR_OBJ">>, <<"OBJECT_LEVELS", "ADDR_OBJ">>}

\* a source locator, by what download_archive and execute_pipeline ask of it:
\* remote (scheme http, https or ftp), exists (the fetch succeeds, or the local
\* path exists), zip_ext (the path ends in .zip), is_zipfile (zipfile.is_zipfile)
Sources ==
    { [remote |-> TRUE, exists |-> TRUE, zip_ext |-> TRUE, is_zipfile |-> TRUE],
      [remote |-> TRUE, exists |-> FALSE, zip_ext |-> TRUE, is_zipfile |-> FALSE],
      [remote |-> TRUE, exists |-> TRUE, zip_ext |-> FALSE, is_zipfile |-> TRUE],
      [remote |-> FALSE, exists |-> TRUE, zip_ext |-> TRUE, is_zipfile |-> TRUE],
      [remote |-> FALSE, exists |-> FALSE, zip_ext |-> TRUE, is_zipfile |-> FALSE],
      [remote |-> FALSE, exists |-> TRUE, zip_ext |-> FALSE, is_zipfile |-> TRUE],
      [remote |-> FALSE, exists |-> TRUE, zip_ext |-> TRUE, is_zipfile |-> FALSE],
      [remote |-> FALSE, exists |-> FALSE, zip_ext |-> FALSE, is_zipfile |-> FALSE] }

\* jobs: None or an integer
JobsValues == {None} \cup {Some(n) : n \in {-1, 0, 1, 2}}
\* os.cpu_count(): None or a positive integer
CpuCounts == {None, Some(2)}

\* the region ids a caller asks for by name: one that archives may hold and one
\* that no archive holds (an empty list asks for every region of the archive)
RequestedIds == {r77, r99}
RequestedLists ==
    UNION {[1..n -> RequestedIds] : n \in 0..MaxRequested}

\* the archives the pipeline is run on: each region holds one regional file
PipelineArchives == SUBSET {<<r77, fT_1_XML>>, <<r78, fT_1_XML>>}

\* the artifacts: common.sql and one <region>.sql per region
aCommon == <<"c", "o", "m", "m", "o", "n">>
Artifacts == {aCommon} \cup RegionIds
\* the owner of the storage handle that region discovery opens
hDiscovery == <<"l", "i", "s", "t">>

\* the files of the invoking working directory that the pipeline may write
ArchiveName == <<"g", "a", "r", ".", "z", "i", "p">>
FailedName_Fixed(region) == <<"f", "a", "i", "l", "e", "d", ".", "s", "q", "l">>
\* f'{region}_failed.sql'
FailedName(region) == region \o <<"_", "f", "a", "i", "l", "e", "d", ".", "s", "q", "l">>
CwdFiles == {ArchiveName} \cup {FailedName(r) : r \in RegionIds}
Absent == <<>>
Old == <<"o", "l", "d">>

-----------------------------------------------------------------------------
(* pipeline.py: DatabaseConfig, _build_psql_command and _import_dump *)

\* DatabaseConfig: every field is None or a value; "" and 0 are values
DatabaseConfigs ==
    [dsn : {None, Some(""), Some("postgresql://h/db")},
     host : {None, Some("db.example")},
     port : {None, Some(0), Some(5432)},
     user : {None, Some("loader")},
     password : {None, Some(""), Some("secret")},
     database : {None, Some(""), Some("gar")}]

\* DatabaseConfig(): every field at its default
DefaultConfig ==
    [dsn |-> None, host |-> None, port |-> None, user |-> None, password |-> None,
     database |-> None]

\* the configurations execute_pipeline is run with
PipelineConfigs == {DefaultConfig, [DefaultConfig EXCEPT !.database = Some("gar")]}

\* the dump paths handed to the loader
DumpPaths == {"/tmp/a/common.sql", "/tmp/b/77.sql"}

\* os.environ: the parent's PGPASSWORD, if it has one
Environs == {[PGPASSWORD |-> None], [PGPASSWORD |-> Some("inherited")]}

\* the truth value of an optional string, of an optional integer
TruthyStr(v) == v # None /\ v[1] # ""
TruthyInt(v) == v # None /\ v[1] # 0

\* str() of an integer
DigitStr(d) == <<"0", "1", "2", "3", "4", "5", "6", "7", "8", "9">>[d + 1]
RECURSIVE NatStr(_)
NatStr(n) == IF n < 10 THEN DigitStr(n) ELSE NatStr(n \div 10) \o DigitStr(n % 10)
Str(n) == IF n < 0 THEN "-" \o NatStr(0 - n) ELSE NatStr(n)

\* _build_psql_command: the argument list and the child's environment
BuildPsqlCommand_PasswordFlag(config, dump_path, environ) ==
    LET base == <<"psql", "--quiet", "--file", dump_path>>
        pass == IF TruthyStr(config.password)
                THEN <<"--password", config.password[1]>> ELSE <<>>
    IN  [command |-> base \o pass \o <<"--dbname", IF TruthyStr(config.dsn)
                                                   THEN config.dsn[1] ELSE "">>,
         env |-> environ]

BuildPsqlCommand_DsnAndParts(config, dump_path, environ) ==
    LET base == <<"psql", "--quiet", "--file", dump_path>>
        env == IF TruthyStr(config.password)
               THEN [environ EXCEPT !.PGPASSWORD = Some(config.password[1])]
               ELSE environ
    IN  [command |->
            base
            \o (IF TruthyStr(config.dsn) THEN <<"--dbname", config.dsn[1]>> ELSE <<>>)
            \o (IF TruthyStr(config.database) /\ ~TruthyStr(config.dsn)
                THEN <<"--dbname", config.database[1]>> ELSE <<>>)
            \o (IF TruthyStr(config.host) THEN <<"--host", config.host[1]>> ELSE <<>>)
            \o (IF TruthyInt(config.port) THEN <<"--port", Str(config.port[1])>> ELSE <<>>)
            \o (IF TruthyStr(config.user) THEN <<"--username", config.user[1]>> ELSE <<>>),
         env |-> env]

BuildPsqlCommand(config, dump_path, environ) ==
    LET base == <<"psql", "--quiet", "--file", dump_path>>
        env == IF TruthyStr(config.password)
               THEN [environ EXCEPT !.PGPASSWORD = Some(config.password[1])]
               ELSE environ
    IN  IF TruthyStr(config.dsn)
        THEN [command |-> base \o <<"--dbname", config.dsn[1]>>, env |-> env]
        ELSE [command |->
                base
                \o (IF TruthyStr(config.database)
                    THEN <<"--dbname", config.database[1]>> ELSE <<>>)
                \o (IF TruthyStr(config.host) THEN <<"--host", config.host[1]>> ELSE <<>>)
                \o (IF TruthyInt(config.port)
                    THEN <<"--port", Str(config.port[1])>> ELSE <<>>)
                \o (IF TruthyStr(config.user)
                    THEN <<"--username", config.user[1]>> ELSE <<>>),
              env |-> env]

\* what psql may do: its exit status (negative when a signal ended it) and what
\* it wrote to standard error, a sequence of characters
ReturnCodes == {-9, 0, 1}
Stderrs == {<<>>, <<" ">>, <<"W", "\n">>}

\* str.strip()
IsSpace(c) == c \in {" ", "\n", "\t"}
RECURSIVE LStrip(_)
LStrip(s) == IF Len(s) > 0 /\ IsSpace(s[1]) THEN LStrip(Tail(s)) ELSE s
RECURSIVE RStrip(_)
RStrip(s) == IF Len(s) > 0 /\ IsSpace(s[Len(s)]) THEN RStrip(SubSeq(s, 1, Len(s) - 1)) ELSE s
Strip(s) == RStrip(LStrip(s))

\* _import_dump after subprocess.run(command, capture_output=True, text=True, env=env)
\* has returned result: what is logged, and whether and what it raises
ImportDumpOutcome_StderrFails(result) ==
    [logged |-> IF Len(result.stderr) > 0 THEN Some(Strip(result.stderr)) ELSE None,
     raised |-> result.returncode # 0 \/ Len(result.stderr) > 0,
     message |-> IF result.returncode # 0 \/ Len(result.stderr) > 0
                 THEN "psql exited with code " \o Str(result.returncode)
                 ELSE ""]

ImportDumpOutcome(result) ==
    [logged |-> IF Len(result.stderr) > 0 THEN Some(Strip(result.stderr)) ELSE None,
     raised |-> result.returncode # 0,
     message |-> IF result.returncode # 0
                 THEN "psql exited with code " \o Str(result.returncode)
                 ELSE ""]

NoLoad ==
    [op |-> "none", dump_path |-> "", command |-> <<>>, env |-> [PGPASSWORD |-> None],
     capture_output |-> FALSE, returncode |-> 0, stderr |-> <<>>, logged |-> None,
     raised |-> FALSE, message |-> ""]

\* _build_psql_command(config, dump_path)
BuildPsqlCommandCall ==
    /\ \E dump_path \in DumpPaths, environ \in Environs :
          LET built == BuildPsqlCommand(db_config, dump_path, environ)
          IN  load' = [NoLoad EXCEPT !.op = "build", !.dump_path = dump_path,
                                     !.command = built.command, !.env = built.env]
    /\ UNCHANGED <<svars, pvars>>

\* _import_dump(config, dump_path)
ImportDumpCall ==
    /\ \E dump_path \in DumpPaths, environ \in Environs,
          returncode \in ReturnCodes, stderr \in Stderrs :
          LET built == BuildPsqlCommand(db_config, dump_path, environ)
              result == [returncode |-> returncode, stderr |-> stderr]
              outcome == ImportDumpOutcome(result)
          IN  load' = [op |-> "import", dump_path |-> dump_path,
                       command |-> built.command, env |-> built.env,
                       capture_output |-> TRUE,
                       returncode |-> returncode, stderr |-> stderr,
                       logged |-> outcome.logged, raised |-> outcome.raised,
                       message |-> outcome.message]
    /\ UNCHANGED <<svars, pvars>>

-----------------------------------------------------------------------------
(* pipeline.py: helpers *)

\* _filter_region_tables
FilterRegionTables(tables) == SelectSeq(tables, LAMBDA t : t \in RegionTableList)

\* the comprehension of _process_common_tables
FilterCommonTables(tables) == SelectSeq(tables, LAMBDA t : t \in CommonTableList)

\* Python's "a or b" on optional integers
PyOr(a, b) == IF a # None /\ a[1] # 0 THEN a ELSE b

\* executor_workers = jobs or os.cpu_count() or 1
ExecutorWorkers(jobs, cpu_count) == PyOr(PyOr(jobs, cpu_count), Some(1))[1]

CollectRegionsResult_IgnoreRequested(available, requested) ==
    LET missing == Sorted(Range(requested) \ Range(available))
    IN  IF Len(missing) > 0 THEN [ok |-> FALSE, regions |-> <<>>, missing |-> missing]
        ELSE [ok |-> TRUE, regions |-> available, missing |-> <<>>]

CollectRegionsResult_SkipMissing(available, requested) ==
    LET requested_set == Range(requested)
    IN  IF Len(requested) = 0 THEN [ok |-> TRUE, regions |-> available, missing |-> <<>>]
        ELSE [ok |-> TRUE,
              regions |-> SelectSeq(available, LAMBDA region : region \in requested_set),
              missing |-> <<>>]

\* _collect_regions, given storage.list_regions(): the regions, or the missing ids
CollectRegionsResult(available, requested) ==
    LET requested_set == Range(requested)
        missing == Sorted(requested_set \ Range(available))
    IN  IF Len(requested) = 0 THEN [ok |-> TRUE, regions |-> available, missing |-> <<>>]
        ELSE IF Len(missing) > 0 THEN [ok |-> FALSE, regions |-> <<>>, missing |-> missing]
        ELSE [ok |-> TRUE,
              regions |-> SelectSeq(available, LAMBDA region : region \in requested_set),
              missing |-> <<>>]

\* an exception leaves execute_pipeline: its TemporaryDirectory is removed
RaiseWith(kind, args) ==
    /\ pc' = "raised"
    /\ error' = kind
    /\ detail' = args
    /\ workdir' = FALSE

Raise(kind) == RaiseWith(kind, <<>>)

Running == {r \in RegionIds : task[r] \in {"running", "converted", "importing"}}
Finished == {r \in RegionIds : task[r] \in {"ok", "failed"}}
Submitted == {regions[i] : i \in 1..submitted}

poolVars == <<pool, workers, submitted, task, finishOrder, snapshot, waiting, reported,
              observedFailure, atFailure>>
loadVars == <<invoked, completed, failedLoad, produced, invokedWith>>

-----------------------------------------------------------------------------
(* pipeline.py: execute_pipeline, the orchestrator *)

\* download_archive
DownloadArchive ==
    /\ pc = "download"
    /\ IF options.source.remote
       THEN IF options.source.exists
            THEN /\ downloaded' = TRUE
                 /\ pc' = "check_ext"
                 /\ UNCHANGED <<error, detail, workdir>>
            ELSE Raise("DownloadError") /\ UNCHANGED downloaded
       ELSE IF ~options.source.exists
            THEN Raise("SourceNotFound") /\ UNCHANGED downloaded
            ELSE /\ downloaded' = FALSE
                 /\ pc' = "check_ext"
                 /\ UNCHANGED <<error, detail, workdir>>
    /\ UNCHANGED <<svars, lvars, given, collected, regions, poolVars, loadVars, artifact,
                   tmpdirs, handles, cwd>>

CheckExtension_Skipped ==
    /\ pc = "check_ext"
    /\ pc' = "common"
    /\ UNCHANGED <<svars, lvars, given, error, detail, downloaded, workdir, collected, regions,
                   poolVars, loadVars, artifact, tmpdirs, handles, cwd>>

\* execute_pipeline: the .zip test
CheckExtension ==
    /\ pc = "check_ext"
    /\ IF ~options.source.zip_ext
       THEN Raise("Format")
       ELSE pc' = "common" /\ UNCHANGED <<error, detail, workdir>>
    /\ UNCHANGED <<svars, lvars, given, downloaded, collected, regions, poolVars, loadVars,
                   artifact, tmpdirs, handles, cwd>>

\* _process_common_tables: the filter, the temporary directory, resolve_storage
CommonBegin ==
    /\ pc = "common"
    /\ IF Len(FilterCommonTables(options.tables)) = 0
       THEN /\ pc' = "collect"
            /\ UNCHANGED <<error, detail, workdir, tmpdirs, handles>>
       ELSE IF ~options.source.is_zipfile
            THEN Raise("UnsupportedStorage") /\ UNCHANGED <<tmpdirs, handles>>
            ELSE /\ tmpdirs' = tmpdirs \cup {aCommon}
                 /\ handles' = handles \cup {aCommon}
                 /\ pc' = "common_convert"
                 /\ UNCHANGED <<error, detail, workdir>>
    /\ UNCHANGED <<svars, lvars, given, downloaded, collected, regions, poolVars, loadVars,
                   artifact, cwd>>

\* _process_common_tables: output.write(common_tables, []) and the storage's __exit__
CommonConvert ==
    /\ pc = "common_convert"
    /\ handles' = handles \ {aCommon}
    /\ \E ok \in BOOLEAN :
          IF ok
          THEN /\ artifact' = artifact \cup {aCommon}
               /\ produced' = produced \cup {aCommon}
               /\ pc' = "common_import"
               /\ UNCHANGED <<error, detail, workdir, tmpdirs>>
          ELSE /\ Raise("Conversion")
               /\ tmpdirs' = tmpdirs \ {aCommon}
               /\ \E written \in BOOLEAN :
                     produced' = IF written THEN produced \cup {aCommon} ELSE produced
               /\ UNCHANGED artifact
    /\ UNCHANGED <<svars, lvars, given, downloaded, collected, regions, poolVars, invoked,
                   completed, failedLoad, invokedWith, cwd>>

CommonImportStart_NoWait ==
    /\ pc = "common_import"
    /\ invoked' = [invoked EXCEPT ![aCommon] = @ + 1]
    /\ invokedWith' = [invokedWith EXCEPT ![aCommon] =
                          Some([config |-> db_config, exists |-> aCommon \in artifact])]
    /\ pc' = "collect"
    /\ UNCHANGED <<svars, lvars, given, error, detail, downloaded, workdir, collected, regions, poolVars,
                   completed, failedLoad, produced, artifact, tmpdirs, handles, cwd>>

\* _import_dump for common.sql: subprocess.run starts psql
CommonImportStart ==
    /\ pc = "common_import"
    /\ invoked' = [invoked EXCEPT ![aCommon] = @ + 1]
    /\ invokedWith' = [invokedWith EXCEPT ![aCommon] =
                          Some([config |-> db_config, exists |-> aCommon \in artifact])]
    /\ pc' = "common_importing"
    /\ UNCHANGED <<svars, lvars, given, error, detail, downloaded, workdir, collected, regions, poolVars,
                   completed, failedLoad, produced, artifact, tmpdirs, handles, cwd>>

CommonImportFinish_Swallowed ==
    /\ pc = "common_importing"
    /\ completed' = [completed EXCEPT ![aCommon] = @ + 1]
    /\ artifact' = artifact \ {aCommon}
    /\ tmpdirs' = tmpdirs \ {aCommon}
    /\ \E returncode \in {0, 1} :
          /\ failedLoad' = IF returncode # 0 THEN failedLoad \cup {aCommon} ELSE failedLoad
          /\ pc' = "collect"
          /\ UNCHANGED <<error, detail, workdir>>
    /\ UNCHANGED <<svars, lvars, given, downloaded, collected, regions, poolVars, invoked,
                   produced, invokedWith, handles, cwd>>

\* _import_dump for common.sql: psql has exited; the temporary directory is removed
CommonImportFinish ==
    /\ pc = "common_importing"
    /\ completed' = [completed EXCEPT ![aCommon] = @ + 1]
    /\ artifact' = artifact \ {aCommon}
    /\ tmpdirs' = tmpdirs \ {aCommon}
    /\ \E returncode \in {0, 1} :
          IF returncode # 0
          THEN /\ failedLoad' = failedLoad \cup {aCommon}
               /\ Raise("ImportFailure")
          ELSE /\ pc' = "collect"
               /\ UNCHANGED <<failedLoad, error, detail, workdir>>
    /\ UNCHANGED <<svars, lvars, given, downloaded, collected, regions, poolVars, invoked,
                   produced, invokedWith, handles, cwd>>

\* _collect_regions: resolve_storage
CollectRegionsOpen ==
    /\ pc = "collect"
    /\ IF ~options.source.is_zipfile
       THEN Raise("UnsupportedStorage") /\ UNCHANGED handles
       ELSE /\ handles' = handles \cup {hDiscovery}
            /\ pc' = "collecting"
            /\ UNCHANGED <<error, detail, workdir>>
    /\ UNCHANGED <<svars, lvars, given, downloaded, collected, regions, poolVars, loadVars,
                   artifact, tmpdirs, cwd>>

\* _collect_regions: storage.list_regions(), the storage's __exit__, the check
\* of the requested regions
CollectRegions ==
    /\ pc = "collecting"
    /\ handles' = handles \ {hDiscovery}
    /\ \E available \in {ZipListRegions(Namelist(dataset, sep))} :
       \E res \in {CollectRegionsResult(available, options.regions)} :
           /\ collected' = TRUE
           /\ IF res.ok
              THEN /\ regions' = res.regions
                   /\ pc' = "pool"
                   /\ UNCHANGED <<error, detail, workdir>>
              ELSE RaiseWith("UnknownRegion", res.missing) /\ UNCHANGED regions
    /\ UNCHANGED <<svars, lvars, given, downloaded, poolVars, loadVars, artifact, tmpdirs,
                   cwd>>

PoolCreate_NoFilter ==
    /\ pc = "pool"
    /\ \E cpu_count \in CpuCounts :
          LET executor_workers == ExecutorWorkers(options.jobs, cpu_count)
          IN  IF executor_workers <= 0
              THEN Raise("PoolConfig") /\ UNCHANGED <<pool, workers>>
              ELSE /\ pool' = "open"
                   /\ workers' = executor_workers
                   /\ pc' = "submit"
                   /\ UNCHANGED <<error, detail, workdir>>
    /\ UNCHANGED <<svars, lvars, given, downloaded, collected, regions, submitted, task,
                   finishOrder, snapshot, waiting, reported, observedFailure, atFailure, loadVars,
                   artifact, tmpdirs, handles, cwd>>

\* _run_region_pool: the filter, the worker count, ProcessPoolExecutor(max_workers)
PoolCreate ==
    /\ pc = "pool"
    /\ IF Len(FilterRegionTables(options.tables)) = 0
       THEN /\ pc' = "retain"
            /\ UNCHANGED <<error, detail, workdir, pool, workers>>
       ELSE \E cpu_count \in CpuCounts :
               LET executor_workers == ExecutorWorkers(options.jobs, cpu_count)
               IN  IF executor_workers <= 0
                   THEN Raise("PoolConfig") /\ UNCHANGED <<pool, workers>>
                   ELSE /\ pool' = "open"
                        /\ workers' = executor_workers
                        /\ pc' = "submit"
                        /\ UNCHANGED <<error, detail, workdir>>
    /\ UNCHANGED <<svars, lvars, given, downloaded, collected, regions, submitted, task,
                   finishOrder, snapshot, waiting, reported, observedFailure, atFailure, loadVars,
                   artifact, tmpdirs, handles, cwd>>

\* _run_region_pool: executor.submit(_process_region, ...) for the next region
SubmitTask ==
    /\ pc = "submit"
    /\ submitted < Len(regions)
    /\ task' = [task EXCEPT ![regions[submitted + 1]] = "queued"]
    /\ submitted' = submitted + 1
    /\ UNCHANGED <<svars, lvars, given, pc, error, detail, downloaded, workdir, collected, regions, pool,
                   workers, finishOrder, snapshot, waiting, reported, observedFailure, atFailure,
                   loadVars, artifact, tmpdirs, handles, cwd>>

\* _run_region_pool: as_completed(futures) starts; it first yields the futures
\* that are already done, in no particular order
BeginWait ==
    /\ pc = "submit"
    /\ submitted = Len(regions)
    /\ waiting' = TRUE
    /\ snapshot' = Finished
    /\ pc' = "wait"
    /\ UNCHANGED <<svars, lvars, given, error, detail, downloaded, workdir, collected, regions, pool,
                   workers, submitted, task, finishOrder, reported, observedFailure, atFailure,
                   loadVars, artifact, tmpdirs, handles, cwd>>

\* the futures as_completed may yield next
NextCompleted ==
    LET early == snapshot \ Range(reported)
        late == SelectSeq(finishOrder, LAMBDA r : r \notin snapshot /\ r \notin Range(reported))
    IN  IF early # {} THEN early
        ELSE IF Len(late) > 0 THEN {late[1]}
        ELSE {}

\* _run_region_pool: one turn of the as_completed loop
ObserveCompletion ==
    /\ pc = "wait"
    /\ \E region \in NextCompleted :
          /\ reported' = Append(reported, region)
          /\ IF task[region] = "ok"
             THEN UNCHANGED <<pc, observedFailure, atFailure>>
             ELSE /\ observedFailure' = TRUE
                  /\ atFailure' = task
                  /\ pc' = "pool_exit"
    /\ UNCHANGED <<svars, lvars, given, error, detail, downloaded, workdir, collected, regions, pool,
                   workers, submitted, task, finishOrder, snapshot, waiting, loadVars,
                   artifact, tmpdirs, handles, cwd>>

\* _run_region_pool: as_completed is exhausted
EndWait ==
    /\ pc = "wait"
    /\ Range(reported) = Submitted
    /\ pc' = "pool_exit"
    /\ UNCHANGED <<svars, lvars, given, error, detail, downloaded, workdir, collected, regions, poolVars,
                   loadVars, artifact, tmpdirs, handles, cwd>>

PoolExit_NoWait ==
    /\ pc = "pool_exit"
    /\ pool' = "closed"
    /\ IF observedFailure
       THEN Raise("RegionFailure")
       ELSE pc' = "retain" /\ UNCHANGED <<error, detail, workdir>>
    /\ UNCHANGED <<svars, lvars, given, downloaded, collected, regions, workers, submitted, task,
                   finishOrder, snapshot, waiting, reported, observedFailure, atFailure, loadVars,
                   artifact, tmpdirs, handles, cwd>>

PoolExit_CancelQueued ==
    /\ pc = "pool_exit"
    /\ Running = {}
    /\ pool' = "closed"
    /\ task' = [r \in RegionIds |-> IF task[r] = "queued" THEN "cancelled" ELSE task[r]]
    /\ IF observedFailure
       THEN Raise("RegionFailure")
       ELSE pc' = "retain" /\ UNCHANGED <<error, detail, workdir>>
    /\ UNCHANGED <<svars, lvars, given, downloaded, collected, regions, workers, submitted,
                   finishOrder, snapshot, waiting, reported, observedFailure, atFailure, loadVars,
                   artifact, tmpdirs, handles, cwd>>

PoolExit_GiveUp ==
    /\ pc = "pool_exit"
    /\ observedFailure \/ Submitted \subseteq Finished
    /\ pool' = "closed"
    /\ IF observedFailure
       THEN Raise("RegionFailure")
       ELSE pc' = "retain" /\ UNCHANGED <<error, detail, workdir>>
    /\ UNCHANGED <<svars, lvars, given, downloaded, collected, regions, workers, submitted, task,
                   finishOrder, snapshot, waiting, reported, observedFailure, atFailure, loadVars,
                   artifact, tmpdirs, handles, cwd>>

\* ProcessPoolExecutor.__exit__: shutdown(wait=True) returns once every submitted
\* task has finished; then the pending exception, if any, propagates
PoolExit ==
    /\ pc = "pool_exit"
    /\ Submitted \subseteq Finished
    /\ pool' = "closed"
    /\ IF observedFailure
       THEN Raise("RegionFailure")
       ELSE pc' = "retain" /\ UNCHANGED <<error, detail, workdir>>
    /\ UNCHANGED <<svars, lvars, given, downloaded, collected, regions, workers, submitted, task,
                   finishOrder, snapshot, waiting, reported, observedFailure, atFailure, loadVars,
                   artifact, tmpdirs, handles, cwd>>

Retain_Overwrite ==
    /\ pc = "retain"
    /\ IF downloaded /\ options.keep_zip
       THEN cwd' = [cwd EXCEPT ![ArchiveName] = ArchiveName]
       ELSE UNCHANGED cwd
    /\ pc' = "done"
    /\ workdir' = FALSE
    /\ UNCHANGED <<svars, lvars, given, error, detail, downloaded, collected, regions, poolVars,
                   loadVars, artifact, tmpdirs, handles>>

\* execute_pipeline: archive retention, then the TemporaryDirectory is removed
Retain ==
    /\ pc = "retain"
    /\ IF downloaded /\ options.keep_zip /\ cwd[ArchiveName] = Absent
       THEN cwd' = [cwd EXCEPT ![ArchiveName] = ArchiveName]
       ELSE UNCHANGED cwd
    /\ pc' = "done"
    /\ workdir' = FALSE
    /\ UNCHANGED <<svars, lvars, given, error, detail, downloaded, collected, regions, poolVars, loadVars,
                   artifact, tmpdirs, handles>>

-----------------------------------------------------------------------------
(* pipeline.py: _process_region, run by a worker process of the pool *)

\* the call queue is first in, first out: the earliest submitted task still queued
FirstQueued ==
    LET queued == SelectSeq(SubSeq(regions, 1, submitted), LAMBDA r : task[r] = "queued")
    IN  IF Len(queued) = 0 THEN {} ELSE {queued[1]}

TaskStart_NoLimit(region) ==
    /\ pool = "open"
    /\ region \in FirstQueued
    /\ task' = [task EXCEPT ![region] = "running"]
    /\ tmpdirs' = tmpdirs \cup {region}
    /\ handles' = handles \cup {region}
    /\ UNCHANGED <<svars, lvars, given, pc, error, detail, downloaded, workdir, collected,
                   regions, pool, workers, submitted, finishOrder, snapshot, waiting, reported,
                   observedFailure, atFailure, loadVars, artifact, cwd>>

\* a worker takes the task: the filter, the temporary directory, resolve_storage
TaskStart(region) ==
    /\ pool = "open"
    /\ region \in FirstQueued
    /\ Cardinality(Running) < workers
    /\ IF Len(FilterRegionTables(FilterRegionTables(options.tables))) = 0
       THEN /\ task' = [task EXCEPT ![region] = "ok"]
            /\ finishOrder' = Append(finishOrder, region)
            /\ UNCHANGED <<tmpdirs, handles>>
       ELSE /\ task' = [task EXCEPT ![region] = "running"]
            /\ tmpdirs' = tmpdirs \cup {region}
            /\ handles' = handles \cup {region}
            /\ UNCHANGED finishOrder
    /\ UNCHANGED <<svars, lvars, given, pc, error, detail, downloaded, workdir, collected, regions, pool,
                   workers, submitted, snapshot, waiting, reported, observedFailure, atFailure,
                   loadVars, artifact, cwd>>

TaskConvert_LeakOnFailure(region) ==
    /\ task[region] = "running"
    /\ \E ok \in BOOLEAN :
          IF ok
          THEN /\ handles' = handles \ {region}
               /\ artifact' = artifact \cup {region}
               /\ produced' = produced \cup {region}
               /\ task' = [task EXCEPT ![region] = "converted"]
               /\ UNCHANGED <<tmpdirs, finishOrder>>
          ELSE /\ task' = [task EXCEPT ![region] = "failed"]
               /\ tmpdirs' = tmpdirs \ {region}
               /\ finishOrder' = Append(finishOrder, region)
               /\ \E written \in BOOLEAN :
                     produced' = IF written THEN produced \cup {region} ELSE produced
               /\ UNCHANGED <<artifact, handles>>
    /\ UNCHANGED <<svars, lvars, given, pc, error, detail, downloaded, workdir, collected,
                   regions, pool, workers, submitted, snapshot, waiting, reported,
                   observedFailure, atFailure, invoked, completed, failedLoad, invokedWith,
                   cwd>>

\* output.write(region_tables, [region]) and the storage's __exit__; a failure
\* here is outside the try block, so nothing is copied, whether or not the
\* converter had written the region's file before it failed
TaskConvert(region) ==
    /\ task[region] = "running"
    /\ handles' = handles \ {region}
    /\ \E ok \in BOOLEAN :
          IF ok
          THEN /\ artifact' = artifact \cup {region}
               /\ produced' = produced \cup {region}
               /\ task' = [task EXCEPT ![region] = "converted"]
               /\ UNCHANGED <<tmpdirs, finishOrder>>
          ELSE /\ task' = [task EXCEPT ![region] = "failed"]
               /\ tmpdirs' = tmpdirs \ {region}
               /\ finishOrder' = Append(finishOrder, region)
               /\ \E written \in BOOLEAN :
                     produced' = IF written THEN produced \cup {region} ELSE produced
               /\ UNCHANGED artifact
    /\ UNCHANGED <<svars, lvars, given, pc, error, detail, downloaded, workdir, collected, regions, pool,
                   workers, submitted, snapshot, waiting, reported, observedFailure, atFailure,
                   invoked, completed, failedLoad, invokedWith, cwd>>

TaskImportStart_BeforeConvert(region) ==
    /\ task[region] = "running"
    /\ task' = [task EXCEPT ![region] = "importing"]
    /\ invoked' = [invoked EXCEPT ![region] = @ + 1]
    /\ invokedWith' = [invokedWith EXCEPT ![region] =
                          Some([config |-> db_config, exists |-> region \in artifact])]
    /\ UNCHANGED <<svars, lvars, given, pc, error, detail, downloaded, workdir, collected,
                   regions, pool, workers, submitted, finishOrder, snapshot, waiting, reported,
                   observedFailure, atFailure, completed, failedLoad, produced, artifact,
                   tmpdirs, handles, cwd>>

\* _import_dump for <region>.sql: subprocess.run starts psql
TaskImportStart(region) ==
    /\ task[region] = "converted"
    /\ task' = [task EXCEPT ![region] = "importing"]
    /\ invoked' = [invoked EXCEPT ![region] = @ + 1]
    /\ invokedWith' = [invokedWith EXCEPT ![region] =
                          Some([config |-> db_config, exists |-> region \in artifact])]
    /\ UNCHANGED <<svars, lvars, given, pc, error, detail, downloaded, workdir, collected, regions, pool,
                   workers, submitted, finishOrder, snapshot, waiting, reported,
                   observedFailure, atFailure, completed, failedLoad, produced, artifact, tmpdirs, handles, cwd>>

TaskImportFinish_CopyAlways(region) ==
    /\ task[region] = "importing"
    /\ completed' = [completed EXCEPT ![region] = @ + 1]
    /\ artifact' = artifact \ {region}
    /\ tmpdirs' = tmpdirs \ {region}
    /\ finishOrder' = Append(finishOrder, region)
    /\ cwd' = [cwd EXCEPT ![FailedName(region)] = region]
    /\ \E returncode \in {0, 1} :
          IF returncode # 0
          THEN /\ failedLoad' = failedLoad \cup {region}
               /\ task' = [task EXCEPT ![region] = "failed"]
          ELSE /\ task' = [task EXCEPT ![region] = "ok"]
               /\ UNCHANGED failedLoad
    /\ UNCHANGED <<svars, lvars, given, pc, error, detail, downloaded, workdir, collected,
                   regions, pool, workers, submitted, snapshot, waiting, reported,
                   observedFailure, atFailure, invoked, produced, invokedWith, handles>>

\* psql has exited: on a non-zero status the except block copies the dump, if it
\* exists, to <region>_failed.sql and re-raises; the temporary directory is removed
TaskImportFinish(region) ==
    /\ task[region] = "importing"
    /\ completed' = [completed EXCEPT ![region] = @ + 1]
    /\ artifact' = artifact \ {region}
    /\ tmpdirs' = tmpdirs \ {region}
    /\ finishOrder' = Append(finishOrder, region)
    /\ \E returncode \in {0, 1} :
          IF returncode # 0
          THEN /\ failedLoad' = failedLoad \cup {region}
               /\ cwd' = IF region \in artifact
                         THEN [cwd EXCEPT ![FailedName(region)] = region]
                         ELSE cwd
               /\ task' = [task EXCEPT ![region] = "failed"]
          ELSE /\ task' = [task EXCEPT ![region] = "ok"]
               /\ UNCHANGED <<failedLoad, cwd>>
    /\ UNCHANGED <<svars, lvars, given, pc, error, detail, downloaded, workdir, collected, regions, pool,
                   workers, submitted, snapshot, waiting, reported, observedFailure, atFailure,
                   invoked, produced, invokedWith, handles>>

-----------------------------------------------------------------------------
(* The pipeline's specification *)

PipelineStart ==
    /\ pc = "download"
    /\ error = "none"
    /\ detail = <<>>
    /\ cwd0 = cwd
    /\ downloaded = FALSE
    /\ workdir = TRUE
    /\ collected = FALSE
    /\ regions = <<>>
    /\ pool = "none"
    /\ workers = 0
    /\ submitted = 0
    /\ task = [r \in RegionIds |-> "none"]
    /\ invoked = [a \in Artifacts |-> 0]
    /\ completed = [a \in Artifacts |-> 0]
    /\ failedLoad = {}
    /\ produced = {}
    /\ invokedWith = [a \in Artifacts |-> None]
    /\ artifact = {}
    /\ tmpdirs = {}
    /\ handles = {}
    /\ finishOrder = <<>>
    /\ snapshot = {}
    /\ waiting = FALSE
    /\ reported = <<>>
    /\ observedFailure = FALSE
    /\ atFailure = [r \in RegionIds |-> "none"]

OptionsSet ==
    [source : Sources, tables : TableLists, regions : RequestedLists,
     jobs : JobsValues, keep_zip : BOOLEAN]

Init ==
    /\ dataset \in PipelineArchives
    /\ sep = "/"
    /\ call = NoCall
    /\ options \in OptionsSet
    /\ db_config \in PipelineConfigs
    /\ load = NoLoad
    /\ cwd \in {[f \in CwdFiles |-> IF f \in {ArchiveName, FailedName(r77)} THEN c ELSE Absent] :
                    c \in {Absent, Old}}
    /\ PipelineStart

Next ==
    \/ DownloadArchive
    \/ CheckExtension
    \/ CommonBegin
    \/ CommonConvert
    \/ CommonImportStart
    \/ CommonImportFinish
    \/ CollectRegionsOpen
    \/ CollectRegions
    \/ PoolCreate
    \/ SubmitTask
    \/ BeginWait
    \/ ObserveCompletion
    \/ EndWait
    \/ PoolExit
    \/ Retain
    \/ \E region \in RegionIds : TaskStart(region)
    \/ \E region \in RegionIds : TaskConvert(region)
    \/ \E region \in RegionIds : TaskImportStart(region)
    \/ \E region \in RegionIds : TaskImportFinish(region)

Spec == Init /\ [][Next]_vars

-----------------------------------------------------------------------------
(* The pipeline's specification with its processes scheduled fairly: the
   orchestrator and every worker process take their next step when they can,
   which says that the download, every conversion and every loader
   invocation terminate *)

Orchestrator ==
    \/ DownloadArchive
    \/ CheckExtension
    \/ CommonBegin
    \/ CommonConvert
    \/ CommonImportStart
    \/ CommonImportFinish
    \/ CollectRegionsOpen
    \/ CollectRegions
    \/ PoolCreate
    \/ SubmitTask
    \/ BeginWait
    \/ ObserveCompletion
    \/ EndWait
    \/ PoolExit
    \/ Retain

Worker(region) ==
    \/ TaskStart(region)
    \/ TaskConvert(region)
    \/ TaskImportStart(region)
    \/ TaskImportFinish(region)

\* execute_pipeline called with an explicit positive worker count, no archive
\* to keep and an empty working directory
LiveInit ==
    /\ dataset \in PipelineArchives
    /\ sep = "/"
    /\ call = NoCall
    /\ options \in {o \in OptionsSet :
                      o.jobs \in {Some(1), Some(2)} /\ ~o.keep_zip}
    /\ db_config = [DefaultConfig EXCEPT !.database = Some("gar")]
    /\ load = NoLoad
    /\ cwd = [f \in CwdFiles |-> Absent]
    /\ PipelineStart

LiveSpec ==
    /\ LiveInit
    /\ [][Next]_vars
    /\ WF_vars(Orchestrator)
    /\ \A region \in RegionIds : WF_vars(Worker(region))

-----------------------------------------------------------------------------
(* The storage operations' specification *)

StorageInit ==
    /\ dataset \in Datasets
    /\ sep \in {"/", "\\"}
    /\ call = NoCall
    /\ options = [source |-> [remote |-> FALSE, exists |-> TRUE, zip_ext |-> TRUE,
                              is_zipfile |-> TRUE],
                  tables |-> <<>>, regions |-> <<>>, jobs |-> None, keep_zip |-> FALSE]
    /\ db_config = DefaultConfig
    /\ load = NoLoad
    /\ cwd = [f \in CwdFiles |-> Absent]
    /\ PipelineStart

StorageNext ==
    \/ ZipOpenTableCall
    \/ ZipOpenSchemaCall
    \/ ZipListRegionsCall
    \/ DirOpenTableCall
    \/ DirOpenSchemaCall
    \/ DirListRegionsCall

StorageSpec == StorageInit /\ [][StorageNext]_vars

-----------------------------------------------------------------------------
(* The loader operations' specification *)

LoaderInit ==
    /\ dataset = {}
    /\ sep = "/"
    /\ call = NoCall
    /\ options = [source |-> [remote |-> FALSE, exists |-> TRUE, zip_ext |-> TRUE,
                              is_zipfile |-> TRUE],
                  tables |-> <<>>, regions |-> <<>>, jobs |-> None, keep_zip |-> FALSE]
    /\ db_config \in DatabaseConfigs
    /\ load = NoLoad
    /\ cwd = [f \in CwdFiles |-> Absent]
    /\ PipelineStart

LoaderNext ==
    \/ BuildPsqlCommandCall
    \/ ImportDumpCall

LoaderSpec == LoaderInit /\ [][LoaderNext]_vars

-----------------------------------------------------------------------------
(* Properties of the pipeline (checked under Spec) *)

HasCommon == Len(FilterCommonTables(options.tables)) > 0
HasRegional == Len(FilterRegionTables(options.tables)) > 0
Ended == pc \in {"done", "raised"}

\* the regions of the archive: the all-digit directories of its files
ArchiveRegionSet == {p[1] : p \in {q \in dataset : Len(q) > 1 /\ IsDigit(q[1])}}

\* the regions a request selects: all of the archive's when none is requested,
\* otherwise the requested ones, each once
SelectedRegions ==
    IF Len(options.regions) = 0 THEN ArchiveRegionSet ELSE Range(options.regions)

RegionWorkStarted ==
    \/ pool # "none"
    \/ submitted > 0
    \/ \E r \in RegionIds : task[r] # "none" \/ invoked[r] > 0

\* C1: when common and regional tables are requested, the loader invocation
\* for the common artifact has completed before the pool exists, before any
\* region task is submitted and before any regional loader invocation starts.
C1_CommonBeforeRegions ==
    (HasCommon /\ HasRegional /\ RegionWorkStarted)
        => (invoked[aCommon] = 1 /\ completed[aCommon] = 1)

\* both regional loaders have been invoked, the second region's finishing first
C1_Witness ==
    /\ HasCommon /\ HasRegional
    /\ task[r78] = "ok" /\ task[r77] = "importing"
    /\ completed[aCommon] = 1

C3_UnknownRegionBeforeAnyLoad ==
    error = "UnknownRegion" => \A a \in Artifacts : invoked[a] = 0

C5_CommonFailureAborts ==
    aCommon \in failedLoad
        => /\ pc = "raised" /\ error = "ImportFailure"
           /\ ~collected /\ pool = "none" /\ submitted = 0
           /\ \A r \in RegionIds : task[r] = "none" /\ invoked[r] = 0

C5_Witness ==
    /\ aCommon \in failedLoad /\ HasRegional
    /\ ArchiveRegionSet = {r77, r78} /\ options.regions = <<>>

\* C6: a failed region task makes the run end by raising; the failure reaches
\* the caller only when every submitted task has finished; no task is ever
\* cancelled, whatever its state was when the failure was seen; and retention
\* does not run once the orchestrator has seen a failure.
C6_FailureAfterAllFinish ==
    /\ (Ended /\ \E r \in RegionIds : task[r] = "failed")
           => (pc = "raised" /\ error = "RegionFailure")
    /\ (pc = "raised" /\ error = "RegionFailure")
           => (observedFailure /\ Submitted \subseteq Finished)
    /\ \A r \in RegionIds : task[r] # "cancelled"
    /\ observedFailure => (pc \in {"pool_exit", "raised"} /\ cwd[ArchiveName] # ArchiveName)

\* the failure was seen while the sibling was still running; it finished before the raise
C6_Witness ==
    /\ pc = "raised" /\ error = "RegionFailure"
    /\ \E r \in RegionIds : atFailure[r] = "importing" /\ task[r] \in {"ok", "failed"}
    /\ downloaded /\ options.keep_zip

-----------------------------------------------------------------------------
(* Properties of the storage backends (checked under StorageSpec) *)

IsOpen == call.op \in {"open_table", "open_schema"}
CallExtension == IF call.op = "open_schema" THEN eXsd ELSE eXml
CallDirectory == IF call.region = None THEN <<>> ELSE <<call.region[1]>>

\* the entries of the archive that are candidates for the last query
ZipCandidates ==
    {name \in Range(Namelist(dataset, sep)) :
        ZipMatches(name, call.region, call.table, CallExtension)}

\* the entries of the searched directory whose name matches a pattern of the last query
DirCandidates ==
    {CallDirectory \o <<e>> : e \in
        {x \in Listdir(dataset, CallDirectory) :
            \E v \in {LowerStr(CallExtension), UpperStr(CallExtension)} :
                \/ Fnmatch(x, sAS \o call.table \o <<"_", "*", ".">> \o v)
                \/ Fnmatch(x, sAS \o call.table \o <<".">> \o v)}}

Candidates == IF call.backend = "zip" THEN ZipCandidates ELSE DirCandidates

\* C7: open_table and open_schema yield a stream exactly when one entry is a
\* candidate, and then over that entry; with none the operation fails as not
\* found, with several as ambiguous.
C7_ExactlyOneCandidate ==
    IsOpen =>
        /\ call.outcome.kind \in {"stream", "error"}
        /\ (call.outcome.kind = "stream") <=> (Cardinality(Candidates) = 1)
        /\ call.outcome.kind = "stream" => call.outcome.entry \in Candidates
        /\ Cardinality(Candidates) = 0 => call.outcome.err = "NotFound"
        /\ Cardinality(Candidates) > 1 => call.outcome.err = "Ambiguous"

\* two archive entries are candidates and the operation fails
C7_Witness ==
    /\ IsOpen /\ call.backend = "zip"
    /\ Cardinality(Candidates) = 2
    /\ call.outcome.err = "Ambiguous"

\* a dataset that follows the layout: files at the root or directly in a region directory
FollowsLayout == \A p \in dataset : Len(p) = 1 \/ (Len(p) = 2 /\ IsDigit(p[1]))

\* C8 as stated: over a dataset that follows the layout, the two backends give
\* the same outcome for a (table, region) query: both fail, or both select the
\* same file.
C8_BackendsAgree ==
    (call.op = "open_table" /\ FollowsLayout /\ sep = "/") =>
        LET z == ZipOpenTable(Namelist(dataset, sep), call.table, call.region)
            d == DirOpenTable(dataset, call.table, call.region)
        IN  /\ call.outcome = (IF call.backend = "zip" THEN z ELSE d)
            /\ \/ z.kind = "error" /\ d.kind = "error"
               \/ z.kind = "stream" /\ d.kind = "stream" /\ z.entry = Join(d.entry, "/")

\* the directory segments of the entry a call returned
EntrySegments ==
    IF call.backend = "zip"
    THEN ButLast(Split(Replace(call.outcome.entry, "\\", "/"), "/"))
    ELSE ButLast(call.outcome.entry)

\* the entry matches a region's scope: the region is among its directory
\* segments (archive), or the entry lies in the region's directory (directory)
MatchesRegionScope(region) ==
    IF call.backend = "zip"
    THEN region \in Range(EntrySegments)
    ELSE EntrySegments = <<region>>

ReturnedForRegion ==
    call.op = "open_table" /\ call.region # None /\ call.outcome.kind = "stream"

\* C9 as amended: an entry that open_table returns for region r1 and whose
\* path has a single all-digit directory segment matches the scope of r1 and
\* of no other region.
C9_RegionIsolation ==
    (ReturnedForRegion
        /\ Cardinality({i \in 1..Len(EntrySegments) : IsDigit(EntrySegments[i])}) <= 1)
      => /\ MatchesRegionScope(call.region[1])
         /\ \A r2 \in RegionIds \ {call.region[1]} : ~MatchesRegionScope(r2)

\* both regions hold a file of the same name, and region 77's is returned
C9_Witness ==
    /\ ReturnedForRegion /\ call.region = Some(r77) /\ call.backend = "zip"
    /\ dataset = {<<r77, fT_1_XML>>, <<r78, fT_1_XML>>}

\* C9 as stated: for any contents, the returned entry matches no other region's scope.
C9_Original ==
    ReturnedForRegion => \A r2 \in RegionIds \ {call.region[1]} : ~MatchesRegionScope(r2)

\* a name made of decimal digits only
AllDigits(s) == Len(s) > 0 /\ \A i \in 1..Len(s) : IsDecimalChar(s[i])

\* C10 as stated: list_regions returns, sorted and without repetitions, the
\* immediate child directories with all-digit names (directory), or the
\* all-digit path segments before the file name of every entry (archive).
C10_ListRegions ==
    call.op = "list_regions" =>
        call.outcome.entry =
            IF call.backend = "dir"
            THEN Sorted({p[1] : p \in {q \in dataset : Len(q) > 1 /\ AllDigits(q[1])}})
            ELSE Sorted(UNION {{p[i] : i \in {j \in 1..(Len(p) - 1) : AllDigits(p[j])}}
                                 : p \in dataset})

\* the form AS_<T>_<anything>.<E> or AS_<T>.<E>, compared without regard to case
HasCandidateForm(basename, table, extension) ==
    LET b == LowerStr(basename)
        head == LowerStr(sAS \o table)
        tail == <<".">> \o LowerStr(extension)
    IN  \/ b = head \o tail
        \/ /\ Len(b) >= Len(head) + 1 + Len(tail)
           /\ SubSeq(b, 1, Len(head) + 1) = head \o <<"_">>
           /\ SubSeq(b, Len(b) - Len(tail) + 1, Len(b)) = tail

\* the file lies in the scope of the last query, as its backend defines scope
InCallScope(p) ==
    IF call.backend = "zip"
    THEN IF call.region = None
         THEN ~(\E i \in 1..(Len(p) - 1) : IsDigit(p[i]))
         ELSE call.region[1] \in Range(ButLast(p))
    ELSE ButLast(p) = CallDirectory

\* the files that are candidates for the last query
CandidatePaths ==
    IF call.backend = "zip"
    THEN {p \in dataset : Join(p, sep) \in ZipCandidates}
    ELSE DirCandidates

\* C11 as stated: in both backends a file in the query's scope is a candidate
\* for table T and extension E exactly when its basename, without regard to
\* case, has the form AS_<T>_<anything>.<E> or AS_<T>.<E>.
C11_CandidateForm ==
    IsOpen =>
        \A p \in dataset :
            InCallScope(p) =>
                (p \in CandidatePaths <=> HasCandidateForm(Last(p), call.table, CallExtension))

-----------------------------------------------------------------------------
(* Further properties of the pipeline (checked under Spec) *)

TargetUnset == db_config.dsn = None /\ db_config.database = None
SourceUsable ==
    options.source.exists /\ options.source.zip_ext /\ options.source.is_zipfile

\* C12 as stated: with neither dsn nor database set, execute_pipeline converts
\* nothing, invokes no loader and never returns normally: on a usable source
\* whose conversion does not fail it ends by raising a configuration error.
C12_MissingTargetIsConfigError ==
    TargetUnset =>
        /\ artifact = {}
        /\ \A a \in Artifacts : invoked[a] = 0
        /\ pc # "done"
        /\ (pc = "raised" /\ SourceUsable /\ error # "Conversion") => error = "Configuration"

\* region discovery is over: the region phase has been entered, or discovery raised
DiscoveryDone == collected /\ pc # "collect"
MissingRegions == Range(options.regions) \ ArchiveRegionSet

\* C13: with an explicit region list, once discovery is over: if every
\* requested region is in the archive, the regions handed to the region phase
\* are exactly the requested ones, each once; otherwise discovery has raised
\* an error carrying every missing region id and nothing else, and no region
\* task is ever submitted and no pool created.
C13_ExplicitRegionList ==
    (Len(options.regions) > 0 /\ DiscoveryDone) =>
        IF MissingRegions = {}
        THEN /\ error # "UnknownRegion"
             /\ Range(regions) = Range(options.regions)
             /\ Len(regions) = Cardinality(Range(options.regions))
        ELSE /\ pc = "raised" /\ error = "UnknownRegion"
             /\ Range(detail) = MissingRegions
             /\ Len(detail) = Cardinality(MissingRegions)
             /\ submitted = 0 /\ pool = "none"
             /\ \A r \in RegionIds : task[r] = "none" /\ invoked[r] = 0

\* one requested region is in the archive and one is not: discovery raised
C13_Witness ==
    /\ options.regions = <<r77, r99>>
    /\ r77 \in ArchiveRegionSet
    /\ HasRegional
    /\ pc = "raised" /\ error = "UnknownRegion" /\ detail = <<r99>>

\* the invoking working directory holds a copy of the source archive
ArchiveCopied == cwd[ArchiveName] = ArchiveName

\* C14: when execute_pipeline has ended, a copy of the archive has been
\* written to the invoking working directory exactly when the source was
\* remote, keep_zip was set, the run ended normally and no file of that name
\* was there before; no copy is written earlier, a local source is never
\* copied and a file that was there before is left as it was.
C14_ArchiveRetention ==
    /\ Ended =>
          (ArchiveCopied <=>
              /\ options.source.remote
              /\ options.keep_zip
              /\ pc = "done"
              /\ cwd0[ArchiveName] = Absent)
    /\ ~Ended => cwd[ArchiveName] = cwd0[ArchiveName]
    /\ ~options.source.remote => cwd[ArchiveName] = cwd0[ArchiveName]
    /\ cwd0[ArchiveName] # Absent => cwd[ArchiveName] = cwd0[ArchiveName]

\* a remote archive was kept after both phases ran
C14_Witness ==
    /\ pc = "done" /\ options.source.remote /\ options.keep_zip
    /\ HasCommon /\ HasRegional /\ Len(regions) > 0
    /\ cwd0[ArchiveName] = Absent /\ ArchiveCopied

\* C15: when no requested table is a regional table, no pool is created, no
\* region task is submitted or run and no regional loader is invoked,
\* whatever regions the archive holds.
C15_NoRegionalTablesNoPool ==
    ~HasRegional =>
        /\ pool = "none" /\ workers = 0 /\ submitted = 0
        /\ \A r \in RegionIds : task[r] = "none" /\ invoked[r] = 0 /\ r \notin tmpdirs

\* only a common table was requested, the archive holds two regions, and the
\* run ended normally after the common loader ran
C15_Witness ==
    /\ ~HasRegional /\ HasCommon
    /\ ArchiveRegionSet = RegionIds /\ Range(regions) = RegionIds
    /\ pc = "done" /\ completed[aCommon] = 1

\* the region phase has been entered with a regional table requested
PoolPhaseEntered == HasRegional /\ collected /\ pc \notin {"collect", "pool"} /\ error # "UnknownRegion"

\* C16 as stated: once the region phase has been entered with a regional
\* table requested, a pool exists whose worker count is at least 1, equals
\* jobs when jobs is a positive integer, and is otherwise the host's
\* parallelism or 1.
C16_WorkerCount ==
    PoolPhaseEntered =>
        /\ pool # "none"
        /\ workers >= 1
        /\ (options.jobs # None /\ options.jobs[1] >= 1) => workers = options.jobs[1]
        /\ (options.jobs = None) =>
              \E cpu_count \in CpuCounts :
                  workers = IF cpu_count = None THEN 1 ELSE cpu_count[1]

-----------------------------------------------------------------------------
(* Properties of the loader (checked under LoaderSpec) *)

Built == load.op \in {"build", "import"}

\* the flag is on the command, and the argument that follows it
HasFlag(flag) == \E i \in 1..Len(load.command) : load.command[i] = flag
FlagValues(flag) ==
    {load.command[i + 1] : i \in {j \in 1..(Len(load.command) - 1) : load.command[j] = flag}}

\* the command past its fixed head: psql --quiet --file <dump_path>
TargetPart == SubSeq(load.command, 5, Len(load.command))

\* a field is set: it is not None
IsSet(v) == v # None
\* a field holds a usable value: not None, not the empty string, not 0
Usable(field) ==
    IF field = "port" THEN TruthyInt(db_config.port) ELSE TruthyStr(db_config[field])

\* C18 as stated, a set field being one that is not None: with dsn set the
\* command's target is the DSN alone; without it each of database, host, port
\* and user is on the command exactly when it is set.
C18_Original ==
    Built =>
        IF IsSet(db_config.dsn)
        THEN TargetPart = <<"--dbname", db_config.dsn[1]>>
        ELSE /\ HasFlag("--dbname") <=> IsSet(db_config.database)
             /\ HasFlag("--host") <=> IsSet(db_config.host)
             /\ HasFlag("--port") <=> IsSet(db_config.port)
             /\ HasFlag("--username") <=> IsSet(db_config.user)

\* C18 as amended: with a non-empty dsn the command's target is the DSN alone
\* and no host, port or user flag is on it; otherwise each of database, host,
\* port and user is on the command, with its value, exactly when it holds a
\* non-empty string or a non-zero port.
C18_CommandTarget ==
    Built =>
        /\ SubSeq(load.command, 1, 4) = <<"psql", "--quiet", "--file", load.dump_path>>
        /\ IF Usable("dsn")
           THEN /\ TargetPart = <<"--dbname", db_config.dsn[1]>>
                /\ ~HasFlag("--host") /\ ~HasFlag("--port") /\ ~HasFlag("--username")
           ELSE /\ HasFlag("--dbname") <=> Usable("database")
                /\ HasFlag("--host") <=> Usable("host")
                /\ HasFlag("--port") <=> Usable("port")
                /\ HasFlag("--username") <=> Usable("user")
                /\ Usable("database") => FlagValues("--dbname") = {db_config.database[1]}
                /\ Usable("host") => FlagValues("--host") = {db_config.host[1]}
                /\ Usable("port") => FlagValues("--port") = {Str(db_config.port[1])}
                /\ Usable("user") => FlagValues("--username") = {db_config.user[1]}
                /\ Len(TargetPart) = 2 * Cardinality({f \in {"database", "host", "port", "user"} :
                                                        Usable(f)})

\* a command built from a DSN while every other field is set too
C18_Witness ==
    /\ Built
    /\ Usable("dsn") /\ Usable("database") /\ Usable("host") /\ Usable("port") /\ Usable("user")
    /\ Len(load.command) = 6

\* C19 as stated, a set password being one that is not None: the password is
\* not an argument of the command, and the child's environment carries it.
C19_Original ==
    (Built /\ IsSet(db_config.password)) =>
        /\ db_config.password[1] \notin Range(load.command)
        /\ load.env.PGPASSWORD = db_config.password

\* C19 as amended: a password is never an argument of the command and no
\* password flag is on it; a non-empty password is in the child's environment
\* as PGPASSWORD, with and without a dsn; an empty or absent password leaves
\* the environment as the parent's.
C19_PasswordOffCommandLine ==
    Built =>
        /\ IsSet(db_config.password) => db_config.password[1] \notin Range(load.command)
        /\ ~HasFlag("--password")
        /\ Usable("password") => load.env.PGPASSWORD = db_config.password
        /\ ~Usable("password") => load.env \in Environs

\* a password was passed along with a DSN
C19_Witness ==
    /\ Built /\ Usable("password") /\ Usable("dsn")
    /\ load.env.PGPASSWORD = Some("secret")
    /\ Len(load.command) = 6

-----------------------------------------------------------------------------
(* Properties of the region workers and the pool (checked under Spec) *)

\* the recovery copy of a region's artifact is in the invoking working directory
RecoveryCopied(r) == cwd[FailedName(r)] = r

\* C21 as stated: a region task that has failed, in its conversion or in its
\* loader invocation, after the converter wrote the region's file, has copied
\* that file to <region>_failed.sql in the invoking working directory.
C21_RecoveryCopyOnAnyFailure ==
    \A r \in RegionIds :
        (task[r] = "failed" /\ r \in produced) => RecoveryCopied(r)

\* a region task ends successfully in this step
TaskSucceeds(r) == task[r] # "ok" /\ task'[r] = "ok"
\* a region task ends by failing in its loader invocation in this step
TaskLoadFails(r) == task[r] = "importing" /\ task'[r] = "failed"

\* C22: a region task that ends successfully leaves the invoking working
\* directory as it was, its own recovery file included; once a region task has
\* ended, successfully or not, its artifact and its temporary directory are
\* gone; and a recovery file is written only by the step in which its region's
\* loader invocation fails.
C22_SuccessLeavesNoTrace ==
    /\ [](\A r \in RegionIds :
            /\ task[r] = "ok" => cwd[FailedName(r)] = cwd0[FailedName(r)]
            /\ task[r] \in {"ok", "failed"} => (r \notin artifact /\ r \notin tmpdirs)
            /\ cwd[FailedName(r)] # cwd0[FailedName(r)] => r \in failedLoad)
    /\ [][\A r \in RegionIds :
            /\ TaskSucceeds(r) => cwd' = cwd
            /\ cwd'[FailedName(r)] # cwd[FailedName(r)] => TaskLoadFails(r)]_vars

\* region 77 succeeded where an old 77_failed.sql lay, and region 78 failed
C22_Witness ==
    /\ task[r77] = "ok" /\ task[r78] = "failed"
    /\ cwd0[FailedName(r77)] = Old /\ cwd[FailedName(r77)] = Old
    /\ RecoveryCopied(r78)
    /\ artifact = {} /\ tmpdirs = {}

\* the pool's block has been left: every report that will be made has been made
PoolOver == pool = "closed"

\* C23 as stated: once the pool's block has been left, every submitted task has
\* been reported, and the reports are in the order in which the tasks completed.
C23_EveryTaskReported ==
    PoolOver =>
        /\ Range(reported) = Submitted
        /\ reported = SelectSeq(finishOrder, LAMBDA r : r \in Submitted)

\* C25: the recovery files of distinct regions have distinct names; when the
\* loader invocations of two distinct regions have both failed, each region's
\* recovery file holds that region's artifact; and a recovery file is written
\* only by its own region's task, at most once in a run, in a step that writes
\* no other file of the working directory.
C25_RecoveryFilesNeverShared ==
    /\ [](\A r1, r2 \in RegionIds :
            r1 # r2 =>
              /\ FailedName(r1) # FailedName(r2)
              /\ (r1 \in failedLoad /\ r2 \in failedLoad) =>
                    (RecoveryCopied(r1) /\ RecoveryCopied(r2)))
    /\ [][\A r \in RegionIds :
            cwd'[FailedName(r)] # cwd[FailedName(r)] =>
              /\ TaskLoadFails(r)
              /\ cwd[FailedName(r)] = cwd0[FailedName(r)]
              /\ \A f \in CwdFiles \ {FailedName(r)} : cwd'[f] = cwd[f]]_vars

\* two workers: the loader invocations of regions 77 and 78 have both failed,
\* and both recovery files are in place
C25_Witness ==
    /\ workers = 2
    /\ failedLoad = {r77, r78}
    /\ RecoveryCopied(r77) /\ RecoveryCopied(r78)

\* C26: a storage handle is open exactly while its scope is being executed:
\* the common phase's during the common conversion, the discovery's during the
\* listing of the regions, a region worker's own during that worker's
\* conversion, whether the conversion then succeeds or fails; no handle of the
\* orchestrator is open while the pool exists; a handle is closed when the
\* loader for its artifact has been invoked; and no handle is open once
\* execute_pipeline has ended.
C26_HandlesClosedOnScopeExit ==
    /\ aCommon \in handles <=> pc = "common_convert"
    /\ hDiscovery \in handles <=> pc = "collecting"
    /\ \A r \in RegionIds : r \in handles <=> task[r] = "running"
    /\ handles \subseteq {aCommon, hDiscovery} \cup RegionIds
    /\ pool # "none" => handles \subseteq RegionIds
    /\ \A a \in Artifacts : invoked[a] > 0 => a \notin handles
    /\ Ended => handles = {}

\* after a loaded common phase, region 77's conversion failed while region 78
\* was loaded, and execute_pipeline has raised with no handle left open
C26_Witness ==
    /\ pc = "raised" /\ pool = "closed"
    /\ completed[aCommon] = 1
    /\ task[r77] = "failed" /\ r77 \notin failedLoad
    /\ task[r78] = "ok" /\ completed[r78] = 1
    /\ handles = {}

\* what the loader is invoked with when it is given the pipeline's
\* configuration and a dump that exists
GivenConfigAndDump == Some([config |-> db_config, exists |-> TRUE])

-----------------------------------------------------------------------------
(* Properties of the pipeline's progress (checked under LiveSpec) *)

Started(r) == task[r] \notin {"none", "queued"}

\* C24: while the pool exists, no more region tasks execute at the same time
\* than the pool has workers; a task exists for a region only if the region is
\* selected, never two for one region, and once all are submitted every
\* selected region has its task; and every selected region's task is
\* eventually started.
C24_BoundedPoolStartsAll ==
    /\ [](pool # "none" =>
            /\ workers >= 1
            /\ Cardinality(Running) <= workers
            /\ Len(regions) = Cardinality(Range(regions))
            /\ Range(regions) = SelectedRegions
            /\ {r \in RegionIds : task[r] # "none"} = Submitted
            /\ Submitted \subseteq SelectedRegions
            /\ pc # "submit" => Submitted = SelectedRegions
            /\ \A r \in RegionIds : invoked[r] <= 1)
    /\ \A r \in RegionIds :
          (pool = "open" /\ r \in SelectedRegions) ~> Started(r)

\* one worker, two regions: region 78 waits in the queue while 77 executes
C24_Witness ==
    /\ pool = "open" /\ workers = 1
    /\ regions = <<r77, r78>>
    /\ task[r77] = "importing" /\ task[r78] = "queued"

\* a loader invocation has been started and psql has not exited yet
LoaderRunning(a) == invoked[a] > completed[a]

\* C27: execute_pipeline eventually ends, by returning or by raising; when it
\* has ended, every submitted region task has finished; and it has not ended
\* while a loader invocation is still running, so an invocation that never
\* ends keeps it from ending.
C27_TerminatesAfterAllTasks ==
    /\ <>Ended
    /\ [](Ended => Submitted \subseteq Finished)
    /\ [](\A a \in Artifacts : LoaderRunning(a) => ~Ended)

\* execute_pipeline has raised for region 77 after waiting for region 78, whose
\* completion it never reported
C27_Witness ==
    /\ pc = "raised" /\ error = "RegionFailure"
    /\ regions = <<r77, r78>>
    /\ reported = <<r77>>
    /\ r77 \in failedLoad
    /\ task[r78] = "ok" /\ completed[r78] = 1

=============================================================================
